---- MODULE Spec2Model ----
(***************************************************************************)
(* vlbl: the guest-side loader of a Linux boot image (loader.c) and the    *)
(* virtual BIOS interrupt dispatcher (virt_int.c).                         *)
(*                                                                         *)
(* A 32-bit value (uint32_t, a pointer) is the pair <<high half, low half>>*)
(* of its two 16-bit halves, with arithmetic modulo 2^32.                  *)
(* Memory is byte addressed and little endian (x86).  It is kept as the    *)
(* sequence of the stores made so far, oldest first: the boot image, data  *)
(* bytes, and the copies cpy4 made; a byte is read from the latest store   *)
(* that covers its address, and reads as Background if none does.          *)
(***************************************************************************)
EXTENDS Integers, Sequences, FiniteSets, TLC

VARIABLES
    regs,       \* the guest register storage the trap layer hands to handler
    entry,      \* the register values on entry of the last handler call
    int_no,     \* the interrupt number of the last handler call
    buf,        \* handler's static uint32_t buf[5]
    mem,        \* memory: the sequence of stores
    wr,         \* the extents <<address, size>> the last operation stored to
    out,        \* chunks sent to the byte sink by the last operation
    cur,        \* per caller: the ebx cursor it keeps between its calls
    hist,       \* per caller: the records and cursors its calls returned
    args,       \* the arguments of load_kernel
    mem0,       \* memory before the last operation
    pc,         \* "trap"/"ret" around a handler call, "guest" between the calls
                \* of the enumerating callers, "boot"/"loaded" around load_kernel
    ret         \* load_kernel's return value

vars == <<regs, entry, int_no, buf, mem, wr, out, cur, hist, args, mem0, pc, ret>>

(***************************************************************************)
(* Fixed-width integers                                                    *)
(***************************************************************************)
RECURSIVE BitAnd(_, _)
BitAnd(x, y) ==
    IF x = 0 \/ y = 0 THEN 0
    ELSE (x % 2) * (y % 2) + 2 * BitAnd(x \div 2, y \div 2)

RECURSIVE BitOr(_, _)
BitOr(x, y) ==
    IF x = 0 THEN y
    ELSE IF y = 0 THEN x
    ELSE (IF x % 2 = 1 \/ y % 2 = 1 THEN 1 ELSE 0) + 2 * BitOr(x \div 2, y \div 2)

\* the 32-bit value with halves hi and lo, and the one of a natural below 2^31
W(hi, lo) == <<hi, lo>>
Lit(n) == <<n \div 65536, n % 65536>>

Zero32 == Lit(0)

Add32(a, b) ==
    LET lo == a[2] + b[2]
    IN  <<(a[1] + b[1] + (lo \div 65536)) % 65536, lo % 65536>>

Sub32(a, b) ==
    LET lo == a[2] - b[2] + 65536
    IN  <<(a[1] - b[1] + 65536 - (IF lo < 65536 THEN 1 ELSE 0)) % 65536, lo % 65536>>

Lt32(a, b) == a[1] < b[1] \/ (a[1] = b[1] /\ a[2] < b[2])

Ge32(a, b) == ~Lt32(a, b)

\* v * 16 and v / 16, v % 16
Shl4(v) == <<(v[1] * 16 + (v[2] \div 4096)) % 65536, (v[2] * 16) % 65536>>
Shr4(v) == <<v[1] \div 16, (v[1] % 16) * 4096 + (v[2] \div 16)>>
Low4(v) == v[2] % 16

\* byte k (0 the lowest) of a 32-bit value
ByteOf(v, k) ==
    IF k = 0 THEN v[2] % 256
    ELSE IF k = 1 THEN v[2] \div 256
    ELSE IF k = 2 THEN v[1] % 256
    ELSE v[1] \div 256

(***************************************************************************)
(* Memory                                                                  *)
(***************************************************************************)
Background(a) == \haa

\* the content of a boot image byte that is not one of the header fields h sets
Pattern(o) == ((o * 7) + (o \div 512) + 1) % 256

\* byte o of a boot image whose header has the fields h: setup_sects at
\* 0x1f1, syssize at 0x1f4, loadflags at 0x211, initrd_addr_max at 0x22c
ImageByte(h, o) ==
    IF o = \h1f1 THEN h.setup_sects
    ELSE IF o >= \h1f4 /\ o < \h1f8 THEN ByteOf(h.syssize, o - \h1f4)
    ELSE IF o = \h211 THEN h.loadflags
    ELSE IF o >= \h22c /\ o < \h230 THEN ByteOf(h.initrd_addr_max, o - \h22c)
    ELSE Pattern(o)

NoHdr == [setup_sects |-> 0, syssize |-> Zero32, loadflags |-> 0,
          initrd_addr_max |-> Zero32]

\* the three kinds of store; each covers the size bytes from base
ImageAt(base, size, h) ==
    [kind |-> "image", base |-> base, size |-> size, src |-> Zero32,
     bytes |-> <<>>, hdr |-> h]
DataAt(base, bytes) ==
    [kind |-> "data", base |-> base, size |-> Len(bytes), src |-> Zero32,
     bytes |-> bytes, hdr |-> NoHdr]
CopyAt(dst, src, size) ==
    [kind |-> "copy", base |-> dst, size |-> size, src |-> src,
     bytes |-> <<>>, hdr |-> NoHdr]

\* the value of a 32-bit quantity below 2^31 as a number
ToNat(v) == v[1] * 65536 + v[2]

\* ReadAt: the byte at address a in the memory made by the first i stores of m.
\* ReadCopy: the byte at a when iteration j of the cpy4 loop of store m[i]
\* starts (the loop copies one dword per iteration, front to back): if an
\* earlier iteration stored to a, the byte that iteration read, at the same
\* offset from src; else the byte of the memory before the copy.
RECURSIVE ReadAt(_, _, _), ReadCopy(_, _, _, _)
ReadAt(m, i, a) ==
    IF i = 0 THEN Background(a)
    ELSE IF ~Lt32(Sub32(a, m[i].base), Lit(m[i].size)) THEN ReadAt(m, i - 1, a)
    ELSE IF m[i].kind = "data" THEN m[i].bytes[ToNat(Sub32(a, m[i].base)) + 1]
    ELSE IF m[i].kind = "image" THEN ImageByte(m[i].hdr, ToNat(Sub32(a, m[i].base)))
    ELSE ReadCopy(m, i, ToNat(Sub32(a, m[i].base)) \div 4,
                  Add32(m[i].src, Sub32(a, m[i].base)))
ReadCopy(m, i, j, a) ==
    IF Lt32(Sub32(a, m[i].base), Lit(4 * j))
    THEN ReadCopy(m, i, ToNat(Sub32(a, m[i].base)) \div 4,
                  Add32(m[i].src, Sub32(a, m[i].base)))
    ELSE ReadAt(m, i - 1, a)

MemRead(m, a) == ReadAt(m, Len(m), a)

\* m without the latest data stores that the n bytes from base cover wholly
\* (nothing can read them any more)
RECURSIVE DropCovered(_, _, _)
DropCovered(m, base, n) ==
    IF m = <<>> \/ m[Len(m)].kind # "data" THEN m
    ELSE LET last == m[Len(m)]
             rest == DropCovered(SubSeq(m, 1, Len(m) - 1), base, n)
         IN  IF Lt32(Sub32(last.base, base), Lit(n))
                /\ ToNat(Sub32(last.base, base)) + last.size <= n
             THEN rest
             ELSE Append(rest, last)

\* memory m after the bytes (a sequence) are stored from address base on
MemWrite(m, base, bytes) ==
    Append(DropCovered(m, base, Len(bytes)), DataAt(base, bytes))

\* the extent of n bytes from address a on, and the addresses in extent e
Extent(a, n) == <<a, n>>
InExtent(a, e) == Lt32(Sub32(a, e[1]), Lit(e[2]))

\* little-endian reads of 1, 2 and 4 bytes at address a
Read8(m, a)  == MemRead(m, a)
Read16(m, a) == MemRead(m, a) + 256 * MemRead(m, Add32(a, Lit(1)))
Read32(m, a) == <<Read16(m, Add32(a, Lit(2))), Read16(m, a)>>

\* little-endian stores of 1, 2 and 4 bytes at address a
Write8(m, a, v)  == MemWrite(m, a, <<v>>)
Write16(m, a, v) == MemWrite(m, a, <<v % 256, v \div 256>>)
Write32(m, a, v) == MemWrite(m, a, <<ByteOf(v, 0), ByteOf(v, 1), ByteOf(v, 2), ByteOf(v, 3)>>)

(***************************************************************************)
(* defs.h: the byte sink.  Every putsi/putchar call is one output chunk.   *)
(***************************************************************************)
putchar(c) == <<c>>

putsi(s) == <<s>>

puts(s) == putsi(s) \o putchar("\n")

HexChars == <<"0", "1", "2", "3", "4", "5", "6", "7",
              "8", "9", "a", "b", "c", "d", "e", "f">>

putux_digit(num) == LET c == HexChars[Low4(num) + 1] IN <<c>>

\* the first loop of putux: the digits of num, least significant first
RECURSIVE putux_digits(_)
putux_digits(num) ==
    IF num # Zero32 THEN putux_digit(num) \o putux_digits(Shr4(num))
    ELSE <<>>

RECURSIVE putux_pad(_, _)
putux_pad(digits, padding) ==
    IF Len(digits) < padding THEN putux_pad(digits \o <<"0">>, padding)
    ELSE digits

RECURSIVE putux_emit(_)
putux_emit(digits) ==
    IF digits = <<>> THEN <<>>
    ELSE putchar(digits[Len(digits)]) \o putux_emit(SubSeq(digits, 1, Len(digits) - 1))

putux(num, prefix, padding) ==
    LET d0 == putux_digits(num)
        d1 == IF padding > Len(d0) /\ padding <= 10 THEN putux_pad(d0, padding) ELSE d0
    IN  (IF prefix THEN putchar("0") \o putchar("x") ELSE <<>>) \o putux_emit(d1)

(***************************************************************************)
(* virt_int.c                                                              *)
(***************************************************************************)
dump_int_args(i, r) ==
    putsi("[BIOS] int: ") \o putux(Lit(i), TRUE, 2)
    \o putsi(", eax: ") \o putux(r.eax, TRUE, 8)
    \o putsi(", ecx: ") \o putux(r.ecx, TRUE, 8)
    \o putsi(", edx: ") \o putux(r.edx, TRUE, 8)
    \o putsi(", ebx: ") \o putux(r.ebx, TRUE, 8)
    \o putsi(", ebp: ") \o putux(r.ebp, TRUE, 8)
    \o putsi(", esi: ") \o putux(r.esi, TRUE, 8)
    \o putsi(", edi: ") \o putux(r.edi, TRUE, 8)
    \o putsi(", flags: ") \o putux(Lit(r.flags), TRUE, 4)
    \o puts("")

log(s) == putsi("[BIOS] ") \o puts(s)

mem_ranges == <<
    [start |-> W(\h0000, \h0000), length |-> W(\h0000, \h7000), type |-> Lit(1)],
    [start |-> W(\h0000, \h7000), length |-> W(\h0000, \h9000), type |-> Lit(2)],
    [start |-> W(\h0001, \h0000), length |-> W(\h00ff, \h0000), type |-> Lit(1)],
    [start |-> W(\h0100, \h0000), length |-> W(\h0f00, \h0000), type |-> Lit(1)],
    [start |-> W(\h7000, \h0000), length |-> W(\h1000, \h0000), type |-> Lit(1)],
    [start |-> W(\hfec0, \h0000), length |-> W(\h0000, \h1000), type |-> Lit(2)],
    [start |-> W(\hfed0, \h0000), length |-> W(\h0000, \h1000), type |-> Lit(2)],
    [start |-> W(\hfee0, \h0000), length |-> W(\h0000, \h1000), type |-> Lit(2)] >>

mem_range_count == Len(mem_ranges)

\* find_next_mem_range whose cursor wraps to 0 after the last entry
find_next_mem_range_wrap(ebx) ==
    IF Ge32(ebx, Lit(mem_range_count))
    THEN [ebx |-> Zero32, next |-> Zero32, length |-> Zero32, type |-> Zero32]
    ELSE [ebx    |-> Lit((ebx[2] + 1) % mem_range_count),
          next   |-> mem_ranges[ebx[2] + 1].start,
          length |-> mem_ranges[ebx[2] + 1].length,
          type   |-> mem_ranges[ebx[2] + 1].type]

\* find_next_mem_range without the (*ebx)++
find_next_mem_range_noinc(ebx) ==
    IF Ge32(ebx, Lit(mem_range_count))
    THEN [ebx |-> Zero32, next |-> Zero32, length |-> Zero32, type |-> Zero32]
    ELSE [ebx    |-> ebx,
          next   |-> mem_ranges[ebx[2] + 1].start,
          length |-> mem_ranges[ebx[2] + 1].length,
          type   |-> mem_ranges[ebx[2] + 1].type]

\* find_next_mem_range whose end-of-list branch does not reset *ebx
find_next_mem_range_keep(ebx) ==
    IF Ge32(ebx, Lit(mem_range_count))
    THEN [ebx |-> ebx, next |-> Zero32, length |-> Zero32, type |-> Zero32]
    ELSE [ebx    |-> Add32(ebx, Lit(1)),
          next   |-> mem_ranges[ebx[2] + 1].start,
          length |-> mem_ranges[ebx[2] + 1].length,
          type   |-> mem_ranges[ebx[2] + 1].type]

\* find_next_mem_range with the bound test one short: *ebx >= mem_range_count - 1
find_next_mem_range_short(ebx) ==
    IF Ge32(ebx, Lit(mem_range_count - 1))
    THEN [ebx |-> Zero32, next |-> Zero32, length |-> Zero32, type |-> Zero32]
    ELSE [ebx    |-> Add32(ebx, Lit(1)),
          next   |-> mem_ranges[ebx[2] + 1].start,
          length |-> mem_ranges[ebx[2] + 1].length,
          type   |-> mem_ranges[ebx[2] + 1].type]

\* find_next_mem_range walking a position the BIOS keeps itself (one step per
\* call made so far) instead of the caller's *ebx
find_next_mem_range_static(ebx) ==
    LET pos == Len(hist[1]) + Len(hist[2])
    IN  IF pos >= mem_range_count
        THEN [ebx |-> Zero32, next |-> Zero32, length |-> Zero32, type |-> Zero32]
        ELSE [ebx    |-> Add32(ebx, Lit(1)),
              next   |-> mem_ranges[pos + 1].start,
              length |-> mem_ranges[pos + 1].length,
              type   |-> mem_ranges[pos + 1].type]

\* the values left in *ebx, *next, *length and *type; the C index k is
\* mem_ranges[k + 1] here
find_next_mem_range(ebx) ==
    IF Ge32(ebx, Lit(mem_range_count))
    THEN [ebx |-> Zero32, next |-> Zero32, length |-> Zero32, type |-> Zero32]
    ELSE [ebx    |-> Add32(ebx, Lit(1)),
          next   |-> mem_ranges[ebx[2] + 1].start,
          length |-> mem_ranges[ebx[2] + 1].length,
          type   |-> mem_ranges[ebx[2] + 1].type]

\* memory m after cpy_to_es_eg(to, from, length): one dword per iteration for
\* i = 0, 4, 8, ... while i < length
cpy_to_es_eg(m, to, from, length) ==
    LET n == (ToNat(length) + 3) \div 4
    IN  IF n = 0 THEN m ELSE Append(m, CopyAt(to, from, 4 * n))

\* copy of length bytes (a multiple of 4 at the only call) from the dwords
\* src to the guest address to
cpy_to_es4(m, to, src, length) ==
    MemWrite(m, to, [k \in 1 .. length |-> ByteOf(src[((k - 1) \div 4) + 1], (k - 1) % 4)])

\* what one call leaves: the register storage, the static buf, memory, the
\* addresses it wrote and the chunks it sent to the sink
Ret(r, b, m, w, o) == [regs |-> r, buf |-> b, mem |-> m, wr |-> w, out |-> o]

ClearCarry(flags) == BitAnd(flags, \hfffe)

\* the 0xec00 branch acknowledging ebx == 2 with eax = 0
int15_ec00_ack(r, b, m) ==
    IF r.ebx = Lit(2)
    THEN Ret([r EXCEPT !.eax = Zero32], b, m, {}, log("OS tells BIOS it'll be 64-bit, ok"))
    ELSE Ret(r, b, m, {}, log("Unknown ebx for ec00!"))

\* the branches of handler: r the register storage, b the static buf, m memory
int15_ec00(r, b, m) ==
    IF r.ebx = Lit(2) THEN Ret(r, b, m, {}, log("OS tells BIOS it'll be 64-bit, ok"))
    ELSE Ret(r, b, m, {}, log("Unknown ebx for ec00!"))

\* the 0xe820 branch without the copy when the list has ended
int15_e820_skip_end(r, b, m) ==
    LET f  == find_next_mem_range(r.ebx)
        b1 == <<f.next, Zero32, f.length, Zero32, f.type>>
        r1 == [r EXCEPT !.ebx = f.ebx, !.eax = r.edx, !.edx = Zero32,
                        !.flags = ClearCarry(r.flags)]
    IN  IF Ge32(r.ebx, Lit(mem_range_count)) THEN Ret(r1, b1, m, {}, <<>>)
        ELSE Ret(r1, b1, cpy_to_es4(m, r1.edi, b1, \h14), {Extent(r1.edi, \h14)}, <<>>)

int15_e820(r, b, m) ==
    LET f  == find_next_mem_range(r.ebx)
        b1 == <<f.next, Zero32, f.length, Zero32, f.type>>
        r1 == [r EXCEPT !.ebx = f.ebx, !.eax = r.edx, !.edx = Zero32,
                        !.flags = ClearCarry(r.flags)]
    IN  Ret(r1, b1, cpy_to_es4(m, r1.edi, b1, \h14), {Extent(r1.edi, \h14)}, <<>>)

\* the 0xe801 branch without the *ebx of "*ebx = *edx = 0"
int15_e801_keep_ebx(r, b, m) ==
    Ret([r EXCEPT !.eax = Lit(\h3c00), !.ecx = Lit(\h3c00),
                  !.edx = Zero32, !.flags = ClearCarry(r.flags)],
        b, m, {}, <<>>)

int15_e801(r, b, m) ==
    Ret([r EXCEPT !.eax = Lit(\h3c00), !.ecx = Lit(\h3c00),
                  !.ebx = Zero32, !.edx = Zero32, !.flags = ClearCarry(r.flags)],
        b, m, {}, <<>>)

\* the 0x8800 branch with the "*ebx = 0" of its neighbour 0xe801
int15_8800_zero_ebx(r, b, m) ==
    Ret([r EXCEPT !.eax = Zero32, !.ebx = Zero32, !.flags = ClearCarry(r.flags)],
        b, m, {}, <<>>)

int15_8800(r, b, m) ==
    Ret([r EXCEPT !.eax = Zero32, !.flags = ClearCarry(r.flags)], b, m, {}, <<>>)

\* the unknown-function branch with the "*flags &= 0xfffe" of its neighbours
int15_unknown_carry(r, b, m) ==
    Ret([r EXCEPT !.flags = ClearCarry(r.flags)], b, m, {},
        log("Unknown eax for int 15h!"))

int15_unknown(r, b, m) == Ret(r, b, m, {}, log("Unknown eax for int 15h!"))

\* the 0x0200 branch with the "*flags &= 0xfffe" of the int 15h services
int16_0200_carry(r, b, m) ==
    Ret([r EXCEPT !.eax = Zero32, !.flags = ClearCarry(r.flags)], b, m, {}, <<>>)

int16_0200(r, b, m) == Ret([r EXCEPT !.eax = Zero32], b, m, {}, <<>>)

int16_0305(r, b, m) == Ret(r, b, m, {}, <<>>)

int16_unknown(r, b, m) == Ret(r, b, m, {}, log("Unknown eax for int 16h!"))

int_unsupported(r, b, m) == Ret(r, b, m, {}, log("Unsupported int!"))

\* handler after the 0x10 test: the register dump, then the service
dispatch(i, r, b, m) ==
    LET fn == r.eax
        h  == IF i = \h15 THEN
                  IF fn = Lit(\hec00) THEN int15_ec00(r, b, m)
                  ELSE IF fn = Lit(\he820) THEN int15_e820(r, b, m)
                  ELSE IF fn = Lit(\he801) THEN int15_e801(r, b, m)
                  ELSE IF fn = Lit(\h8800) THEN int15_8800(r, b, m)
                  ELSE int15_unknown(r, b, m)
              ELSE IF i = \h16 THEN
                  IF fn = Lit(\h0200) THEN int16_0200(r, b, m)
                  ELSE IF fn = Lit(\h0305) THEN int16_0305(r, b, m)
                  ELSE int16_unknown(r, b, m)
              ELSE int_unsupported(r, b, m)
    IN  [h EXCEPT !.out = dump_int_args(i, r) \o @]

\* handler with the register dump placed before the 0x10 test
handler_dump_first(i, r, b, m) ==
    IF i = \h10 THEN Ret(r, b, m, {}, dump_int_args(i, r))
    ELSE dispatch(i, r, b, m)

\* one call of handler with interrupt number i
handler(i, r, b, m) ==
    IF i = \h10 THEN Ret(r, b, m, {}, <<>>)
    ELSE dispatch(i, r, b, m)

(***************************************************************************)
(* loader.c                                                                *)
(***************************************************************************)
\* byte offsets of the fields of the packed struct _kernel_header
kernel_header ==
    [setup_sects |-> 1, syssize |-> 4, vid_mode |-> 10, type_of_loader |-> 32,
     loadflags |-> 33, code32_start |-> 36, ramdisk_image |-> 40,
     ramdisk_size |-> 44, heap_end_ptr |-> 52, cmd_line_ptr |-> 56,
     initrd_addr_max |-> 60, setup_data_l |-> 96, setup_data_h |-> 100]

Field(base, name) == Add32(base, Lit(kernel_header[name]))

\* cpy4 with the loop test "i <= size": one dword more
cpy4_inclusive(m, dst, src, size) ==
    LET n == (ToNat(size) \div 4) + 1
    IN  IF n = 0 THEN m ELSE Append(m, CopyAt(dst, src, 4 * n))

\* memory m after cpy4(dst, src, size): the loop runs for i = 0, 4, 8, ...
\* while i < size, one dword each.  (size is below 2^31 in every call
\* modelled; beyond, the int i overflows.)
cpy4(m, dst, src, size) ==
    LET n == (ToNat(size) + 3) \div 4
    IN  IF n = 0 THEN m ELSE Append(m, CopyAt(dst, src, 4 * n))

\* the extent cpy4(dst, src, size) stores to
cpy4_stores(dst, size) ==
    LET n == (ToNat(size) + 3) \div 4
    IN  IF n = 0 THEN {} ELSE {Extent(dst, 4 * n)}

\* const char cmd[256], zero filled after the string
cmd_string == <<
    99, 111, 110, 115, 111, 108, 101, 61, 117, 97, 114, 116, 56, 50,
    53, 48, 44, 105, 111, 44, 48, 120, 51, 102, 56, 44, 49, 49,
    53, 50, 48, 48, 110, 56, 32, 100, 101, 98, 117, 103 >>

cmd == [k \in 1 .. 256 |-> IF k <= Len(cmd_string) THEN cmd_string[k] ELSE 0]

\* where the loader's own data holds cmd
CmdAddr == W(\h0000, \h7800)

\* the printable ASCII characters, from code 32 on ("?" stands for the
\* backquote, which no TLA+ string can hold)
AsciiChars == <<
    " ", "!", "\"", "#", "$", "%", "&", "'", "(", ")", "*", "+",
    ",", "-", ".", "/", "0", "1", "2", "3", "4", "5", "6", "7",
    "8", "9", ":", ";", "<", "=", ">", "?", "@", "A", "B", "C",
    "D", "E", "F", "G", "H", "I", "J", "K", "L", "M", "N", "O",
    "P", "Q", "R", "S", "T", "U", "V", "W", "X", "Y", "Z", "[",
    "\\", "]", "^", "_", "?", "a", "b", "c", "d", "e", "f", "g",
    "h", "i", "j", "k", "l", "m", "n", "o", "p", "q", "r", "s",
    "t", "u", "v", "w", "x", "y", "z", "{", "|", "}", "~" >>

\* the C string at address a, as putsi sends it
RECURSIVE CString(_, _)
CString(m, a) ==
    LET c == MemRead(m, a)
    IN  IF c = 0 THEN ""
        ELSE (IF c >= 32 /\ c <= 126 THEN AsciiChars[c - 31] ELSE "?")
             \o CString(m, Add32(a, Lit(1)))

\* the size of the real-mode part, without the default for setup_sects = 0
kernel_lower_size_literal(setup_sects) == Lit((setup_sects + 1) * 512)

\* the size of the real-mode part, from the header's setup_sects
kernel_lower_size(setup_sects) ==
    Lit(((IF setup_sects # 0 THEN setup_sects ELSE 4) + 1) * 512)

\* the loadflags patch with the mask one bit too wide: (loadflags & 0x3f) | 0x80
loadflags_patch_wide(loadflags) == BitOr(BitAnd(loadflags, \h3f), \h80)

\* the value load_kernel stores to loadflags
loadflags_patch(loadflags) == BitOr(BitAnd(loadflags, \h1f), \h80)

\* the limit test: initrd_addr_max < (uint32_t)initramfs + initramfs_size
initrd_too_small(initrd_addr_max, initramfs, initramfs_size) ==
    Lt32(initrd_addr_max, Add32(initramfs, initramfs_size))

\* the if/else on the limit test, with a rejection that also gives up the
\* command line (cmd_line_ptr = 0)
ramdisk_fields_drop_cmdline(m, header, a, too_small) ==
    LET m1 == Write32(m, Field(header, "ramdisk_image"),
                  IF too_small THEN Zero32 ELSE a.initramfs)
        m2 == Write32(m1, Field(header, "ramdisk_size"),
                  IF too_small THEN Zero32 ELSE a.initramfs_size)
    IN  IF too_small THEN Write32(m2, Field(header, "cmd_line_ptr"), Zero32) ELSE m2

\* the if/else on the limit test: memory after ramdisk_image and
\* ramdisk_size of the relocated header are set
ramdisk_fields(m, header, a, too_small) ==
    LET m1 == Write32(m, Field(header, "ramdisk_image"),
                  IF too_small THEN Zero32 ELSE a.initramfs)
    IN  Write32(m1, Field(header, "ramdisk_size"),
                IF too_small THEN Zero32 ELSE a.initramfs_size)

\* load_kernel: a its arguments, m memory.  The result is the memory it
\* leaves, the addresses it stored to, the sink output and the return value.
load_kernel(a, m) ==
    LET orig_header == Add32(a.kernel_image, Lit(\h1f0))
        setup_sects == Read8(m, Field(orig_header, "setup_sects"))
        lower_size == kernel_lower_size(setup_sects)
        upper_size == Shl4(Read32(m, Field(orig_header, "syssize")))
        prot     == Add32(a.kernel_image, lower_size)
        m1       == cpy4(m, a.loc_real, a.kernel_image, lower_size)
        m2       == cpy4(m1, a.loc_prot, prot, upper_size)
        cmd_base == a.stack_end
        m3       == cpy4(m2, cmd_base, CmdAddr, Lit(256))
        header   == Add32(a.loc_real, Lit(\h1f0))
        m4  == Write16(m3, Field(header, "vid_mode"), \hffff)
        m5  == Write8(m4, Field(header, "type_of_loader"), \hff)
        m6  == Write8(m5, Field(header, "loadflags"),
                   loadflags_patch(Read8(m5, Field(header, "loadflags"))))
        m7  == Write32(m6, Field(header, "code32_start"), a.loc_prot)
        m8  == Write16(m7, Field(header, "heap_end_ptr"),
                   Sub32(Sub32(a.stack_end, a.loc_real), Lit(\h200))[2])
        m9  == Write32(m8, Field(header, "cmd_line_ptr"), cmd_base)
        m10 == Write32(m9, Field(header, "setup_data_l"), Zero32)
        m11 == Write32(m10, Field(header, "setup_data_h"), Zero32)
        initrd_addr_max == Read32(m11, Field(header, "initrd_addr_max"))
        too_small == initrd_too_small(initrd_addr_max, a.initramfs, a.initramfs_size)
        m13 == ramdisk_fields(m11, header, a, too_small)
        stored == cpy4_stores(a.loc_real, lower_size)
                  \cup cpy4_stores(a.loc_prot, upper_size)
                  \cup cpy4_stores(cmd_base, Lit(256))
                  \cup {Extent(Field(header, "vid_mode"), 2),
                        Extent(Field(header, "type_of_loader"), 1),
                        Extent(Field(header, "loadflags"), 1),
                        Extent(Field(header, "code32_start"), 4),
                        Extent(Field(header, "heap_end_ptr"), 2),
                        Extent(Field(header, "cmd_line_ptr"), 4),
                        Extent(Field(header, "setup_data_l"), 4),
                        Extent(Field(header, "setup_data_h"), 4),
                        Extent(Field(header, "ramdisk_image"), 4),
                        Extent(Field(header, "ramdisk_size"), 4)}
    IN  [mem |-> m13,
         wr  |-> stored,
         out |-> puts("[vlbl] loading kernel...")
                 \o putsi("[vlbl] cmdline: ") \o puts(CString(m3, cmd_base))
                 \o (IF too_small
                     THEN putsi("[vlbl] cannot load initrd because of a too small initrd_addr_max: ")
                          \o putux(initrd_addr_max, TRUE, 8) \o putchar("\n")
                     ELSE <<>>)
                 \o puts("[vlbl] kernel loaded."),
         ret |-> 0]

(***************************************************************************)
(* The dispatcher, one trap: the trap layer calls handler with interrupt   *)
(* number int_no and the addresses of the guest registers; the registers,  *)
(* the static buf and guest memory hold whatever the guest and earlier     *)
(* calls left there.                                                       *)
(***************************************************************************)
IntNos == {\h10, \h15, \h16, \h13}

EaxVals == {Lit(\hec00), Lit(\he820), Lit(\he801), Lit(\h8800),
            Lit(\h0200), Lit(\h0305), Lit(\h9999), W(\h0001, \he820)}

EbxVals == {Lit(0), Lit(2), Lit(mem_range_count - 1), Lit(mem_range_count),
            W(\h0001, \h0002), W(\hffff, \hffff)}

SMAP == W(\h534d, \h4150)

GuestBufA == W(\h0000, \h1000)
GuestBufB == W(\h0009, \hfff0)

EntryRegs ==
    [eax : EaxVals, ebx : EbxVals,
     ecx : {Lit(\h14), Zero32},
     edx : {SMAP, Zero32},
     ebp : {Zero32, W(\h0bad, \hbeef)},
     esi : {Zero32, W(\hffff, \hffff)},
     edi : {GuestBufA, GuestBufB},
     flags : {\h0202, \hffff}]

NoArgs == [kernel_image |-> Zero32, loc_real |-> Zero32, stack_end |-> Zero32,
           loc_prot |-> Zero32, initramfs |-> Zero32, initramfs_size |-> Zero32]

\* the record of table entry k (from 0), as the five dwords of buf
RecordOf(k) == <<mem_ranges[k + 1].start, Zero32, mem_ranges[k + 1].length, Zero32,
                 mem_ranges[k + 1].type>>

ZeroBuf == <<Zero32, Zero32, Zero32, Zero32, Zero32>>

\* the registers of a guest that has not yet set any
BootRegs == [eax |-> Zero32, ebx |-> Zero32, ecx |-> Zero32, edx |-> Zero32,
             ebp |-> Zero32, esi |-> Zero32, edi |-> Zero32, flags |-> \h0203]

\* what earlier calls can have left: nothing, or a record in buf and in the
\* guest buffer it was copied to
Earlier == {[buf |-> ZeroBuf, mem |-> <<>>],
            [buf |-> RecordOf(3), mem |-> cpy_to_es4(<<>>, GuestBufA, RecordOf(3), \h14)]}

Init ==
    /\ pc = "trap"
    /\ int_no \in IntNos
    /\ entry \in EntryRegs
    /\ regs = entry
    /\ \E e \in Earlier : buf = e.buf /\ mem = e.mem
    /\ mem0 = mem
    /\ wr = {}
    /\ out = <<>>
    /\ cur = <<Zero32, Zero32>>
    /\ hist = <<<<>>, <<>>>>
    /\ args = NoArgs
    /\ ret = 0

Dispatch ==
    /\ pc = "trap"
    /\ \E h \in {handler(int_no, regs, buf, mem)} :
           /\ regs' = h.regs
           /\ buf' = h.buf
           /\ mem' = h.mem
           /\ wr' = h.wr
           /\ out' = h.out
    /\ mem0' = mem
    /\ pc' = "ret"
    /\ UNCHANGED <<entry, int_no, cur, hist, args, ret>>

\* how many more 0xe820 calls a guest makes with the ebx it got back
MaxAgain == 2

\* a guest that got a 0xe820 answer calls again: eax and edx (which the call
\* replaced) are set anew, ebx and the rest are as the call returned them;
\* hist[1] keeps the cursor the guest passed and the ebx it got back
GuestAgain ==
    /\ pc = "ret"
    /\ int_no = \h15 /\ entry.eax = Lit(\he820)
    /\ Len(hist[1]) < MaxAgain
    /\ \E r \in {[regs EXCEPT !.eax = Lit(\he820), !.edx = SMAP]} :
          /\ entry' = r
          /\ regs' = r
    /\ hist' = [hist EXCEPT ![1] = Append(@, [cursor |-> entry.ebx, ebx |-> regs.ebx])]
    /\ pc' = "trap"
    /\ UNCHANGED <<int_no, buf, mem, wr, out, cur, args, mem0, ret>>

Next == Dispatch \/ GuestAgain

Spec == Init /\ [][Next]_vars

(***************************************************************************)
(* Memory-map enumeration: two callers in the guest, each keeping its own  *)
(* cursor and its own buffer (the buffers overlap), call the 0xe820        *)
(* service in any interleaving.  A caller loads its cursor into ebx, traps *)
(* and, on return, saves ebx and reads the record from its buffer.         *)
(***************************************************************************)
MaxCalls == 9

Callers == {1, 2}

CallerBuf(k) == IF k = 1 THEN GuestBufA ELSE Add32(GuestBufA, Lit(8))

InitEnum ==
    /\ pc = "guest"
    /\ int_no = \h15
    /\ regs = BootRegs
    /\ entry = regs
    /\ buf = ZeroBuf
    /\ mem = <<>>
    /\ mem0 = mem
    /\ wr = {}
    /\ out = <<>>
    /\ cur = <<Zero32, Zero32>>
    /\ hist = <<<<>>, <<>>>>
    /\ args = NoArgs
    /\ ret = 0

E820Call(k) ==
    /\ pc = "guest"
    /\ Len(hist[k]) < MaxCalls
    /\ \E edx \in {SMAP, Zero32} :
       \E r \in {[regs EXCEPT !.eax = Lit(\he820), !.ebx = cur[k], !.ecx = Lit(\h14),
                              !.edx = edx, !.edi = CallerBuf(k)]} :
       \E h \in {handler(\h15, r, buf, mem)} :
       \E rec \in {[cursor    |-> cur[k],
                    base      |-> Read32(h.mem, CallerBuf(k)),
                    base_hi   |-> Read32(h.mem, Add32(CallerBuf(k), Lit(4))),
                    length    |-> Read32(h.mem, Add32(CallerBuf(k), Lit(8))),
                    length_hi |-> Read32(h.mem, Add32(CallerBuf(k), Lit(12))),
                    type      |-> Read32(h.mem, Add32(CallerBuf(k), Lit(16))),
                    ebx       |-> h.regs.ebx]} :
            /\ entry' = r
            /\ regs' = h.regs
            /\ buf' = h.buf
            /\ mem' = h.mem
            /\ wr' = h.wr
            /\ out' = h.out
            /\ cur' = [cur EXCEPT ![k] = h.regs.ebx]
            /\ hist' = [hist EXCEPT ![k] = Append(@, rec)]
    /\ mem0' = mem
    /\ UNCHANGED <<int_no, args, pc, ret>>

NextEnum == \E k \in Callers : E820Call(k)

SpecEnum == InitEnum /\ [][NextEnum]_vars

(***************************************************************************)
(* The boot: the hypervisor calls load_kernel once, with a raw boot image  *)
(* in memory, destinations that do not overlap the image, the loader's     *)
(* data or each other, and an optional initramfs.                          *)
(***************************************************************************)
\* the size of the real-mode part of an image with this setup_sects
LowerSize(setup_sects) == ((IF setup_sects = 0 THEN 4 ELSE setup_sects) + 1) * 512

\* memory at boot: a boot image at base whose header has the fields h, and
\* the loader's cmd
BootMem(base, h) ==
    <<ImageAt(base, LowerSize(h.setup_sects) + 16 * ToNat(h.syssize), h),
      DataAt(CmdAddr, cmd)>>

\* the image headers: setup_sects, syssize and loadflags vary together with
\* the layout, initrd_addr_max and the initramfs with the smallest image
Headers ==
    [setup_sects : {0, 1, 2}, syssize : {Lit(0), Lit(3)}, loadflags : {\h61, \h9e, \hff},
     initrd_addr_max : {W(\h37ff, \hffff)}]
    \cup {[setup_sects |-> 31, syssize |-> Lit(1), loadflags |-> \h00,
           initrd_addr_max |-> W(\h37ff, \hffff)]}

Layouts ==
    {[kernel_image |-> W(\h0040, \h0000), loc_real |-> W(\h0001, \h0000),
      stack_end |-> W(\h0001, \hf000), loc_prot |-> W(\h0010, \h0000)],
     [kernel_image |-> W(\h0040, \h0000), loc_real |-> W(\h0002, \h0000),
      stack_end |-> W(\h0004, \h0100), loc_prot |-> W(\h0100, \h0000)],
     [kernel_image |-> W(\h0020, \h0000), loc_real |-> W(\h0009, \h0000),
      stack_end |-> W(\h0000, \h8000), loc_prot |-> W(\h0010, \h0000)]}

InitrdAddrMax == {W(\h37ff, \hffff), W(\h7fff, \hffff)}

Initramfs == {Zero32, W(\h3000, \h0000), W(\hffff, \hf000)}

InitramfsSize == {Zero32, W(\h0000, \h2000), W(\h07ff, \hfffe), W(\h07ff, \hffff),
                  W(\h0800, \h0000)}

\* the boots: every header in every layout with one initramfs, and every
\* initramfs and limit with one header in one layout
Boots ==
    [layout : Layouts, hdr : Headers, initramfs : {W(\h3000, \h0000)},
     initramfs_size : {W(\h0000, \h2000)}]
    \cup
    [layout : {l \in Layouts : l.loc_real = W(\h0001, \h0000)},
     hdr : [setup_sects : {1}, syssize : {Lit(16)}, loadflags : {\h61},
            initrd_addr_max : InitrdAddrMax],
     initramfs : Initramfs, initramfs_size : InitramfsSize]

InitLoad ==
    /\ pc = "boot"
    /\ \E b \in Boots :
          /\ args = [kernel_image |-> b.layout.kernel_image,
                     loc_real |-> b.layout.loc_real,
                     stack_end |-> b.layout.stack_end,
                     loc_prot |-> b.layout.loc_prot,
                     initramfs |-> b.initramfs, initramfs_size |-> b.initramfs_size]
          /\ mem = BootMem(b.layout.kernel_image, b.hdr)
    /\ mem0 = mem
    /\ wr = {}
    /\ out = <<>>
    /\ ret = -1
    /\ int_no = \h10
    /\ regs = BootRegs
    /\ entry = regs
    /\ buf = ZeroBuf
    /\ cur = <<Zero32, Zero32>>
    /\ hist = <<<<>>, <<>>>>

LoadKernel ==
    /\ pc = "boot"
    /\ \E l \in {load_kernel(args, mem)} :
          /\ mem' = l.mem
          /\ wr' = l.wr
          /\ out' = l.out
          /\ ret' = l.ret
    /\ mem0' = mem
    /\ pc' = "loaded"
    /\ UNCHANGED <<regs, entry, int_no, buf, cur, hist, args>>

NextLoad == LoadKernel

SpecLoad == InitLoad /\ [][NextLoad]_vars

(***************************************************************************)
(* The copy loops on their own: cpy4 (loader.c) and cpy_to_es_eg           *)
(* (virt_int.c) called once with any size, multiple of 4 or not, on a      *)
(* source of distinct bytes; the destination is apart from the source or   *)
(* overlaps it.                                                            *)
(***************************************************************************)
MaxCopySize == 12

CopySrc == W(\h0000, \h2000)

CopySrcBytes == [k \in 1 .. 24 |-> 16 + k]

CopyArgs ==
    [fn : {"cpy4", "cpy_to_es_eg"},
     dst : {W(\h0000, \h3000), Add32(CopySrc, Lit(2))},
     src : {CopySrc, Add32(CopySrc, Lit(4))},
     size : {Lit(n) : n \in 0 .. MaxCopySize}]

InitCopy ==
    /\ pc = "copy"
    /\ args \in CopyArgs
    /\ mem = <<DataAt(CopySrc, CopySrcBytes)>>
    /\ mem0 = mem
    /\ wr = {}
    /\ out = <<>>
    /\ ret = 0
    /\ int_no = \h10
    /\ regs = BootRegs
    /\ entry = regs
    /\ buf = ZeroBuf
    /\ cur = <<Zero32, Zero32>>
    /\ hist = <<<<>>, <<>>>>

Cpy4Call ==
    /\ pc = "copy"
    /\ args.fn = "cpy4"
    /\ mem' = cpy4(mem, args.dst, args.src, args.size)
    /\ wr' = cpy4_stores(args.dst, args.size)
    /\ mem0' = mem
    /\ pc' = "copied"
    /\ UNCHANGED <<regs, entry, int_no, buf, out, cur, hist, args, ret>>

CpyToEsEgCall ==
    /\ pc = "copy"
    /\ args.fn = "cpy_to_es_eg"
    /\ mem' = cpy_to_es_eg(mem, args.dst, args.src, args.size)
    /\ wr' = cpy4_stores(args.dst, args.size)
    /\ mem0' = mem
    /\ pc' = "copied"
    /\ UNCHANGED <<regs, entry, int_no, buf, out, cur, hist, args, ret>>

NextCopy == Cpy4Call \/ CpyToEsEgCall

SpecCopy == InitCopy /\ [][NextCopy]_vars

(***************************************************************************)
(* What an operation left alone                                            *)
(***************************************************************************)
\* the offset of address a from base lies in the n bytes from base
Within(a, base, n) == Lt32(Sub32(a, base), Lit(n))

\* extent e lies wholly in the n bytes from base
ExtentWithin(e, base, n) ==
    /\ Within(e[1], base, n)
    /\ ToNat(Sub32(e[1], base)) + e[2] <= n

\* the byte at a is what it was before the operation
Untouched(a) == MemRead(mem, a) = MemRead(mem0, a)

\* the bytes next to the n bytes from base, on both sides, are untouched
EdgesUntouched(base, n) ==
    /\ Untouched(Sub32(base, Lit(1)))
    /\ Untouched(Add32(base, Lit(n)))

(***************************************************************************)
(* Properties of the copy loops (specification SpecCopy)                   *)
(***************************************************************************)
\* C17: called with a size that is not a multiple of 4, the copy loop copies
\* only the first floor(size / 4) * 4 bytes and stores no byte at or beyond
\* dst + size (with a multiple of 4 it copies size bytes).
C17_Truncates ==
    pc = "copied" =>
        LET size == ToNat(args.size)
            whole == 4 * (size \div 4)
        IN  /\ wr = IF whole = 0 THEN {} ELSE {Extent(args.dst, whole)}
            /\ \A o \in size .. size + 3 : Untouched(Add32(args.dst, Lit(o)))
            /\ args.dst = W(\h0000, \h3000) =>
                  \A o \in 0 .. whole - 1 :
                      MemRead(mem, Add32(args.dst, Lit(o)))
                        = MemRead(mem0, Add32(args.src, Lit(o)))

(***************************************************************************)
(* Properties of one handler call (specification Spec)                     *)
(***************************************************************************)
Returned == pc = "ret"

IsE820 == int_no = \h15 /\ entry.eax = Lit(\he820)

InRange == Lt32(entry.ebx, Lit(mem_range_count))

Carry(flags) == flags % 2

\* the dword at offset k of the guest buffer the call was given in edi
RecDword(k) == Read32(mem, Add32(entry.edi, Lit(k)))

\* C2: a 0xe820 call with an in-range cursor c copies the record of table
\* entry c (low dwords start, length, type; high dwords zero) to the buffer at
\* edi, returns ebx = c + 1, eax = the entry edx, edx = 0 and clears carry.
C2_InRangeRecord ==
    (Returned /\ IsE820 /\ InRange) =>
        LET c == entry.ebx[2]
        IN  /\ RecDword(0) = mem_ranges[c + 1].start
            /\ RecDword(4) = Zero32
            /\ RecDword(8) = mem_ranges[c + 1].length
            /\ RecDword(12) = Zero32
            /\ RecDword(16) = mem_ranges[c + 1].type
            /\ regs.ebx = Lit(c + 1)
            /\ regs.eax = entry.edx
            /\ regs.edx = Zero32
            /\ Carry(regs.flags) = 0

C2_Witness ==
    /\ Returned /\ IsE820
    /\ entry.ebx = Lit(mem_range_count - 1)
    /\ entry.edi = GuestBufB
    /\ entry.edx = SMAP
    /\ Carry(entry.flags) = 1
    /\ RecDword(0) = W(\hfee0, \h0000)
    /\ regs.ebx = Lit(mem_range_count)

\* C3 as claimed: a 0xe820 call with an out-of-range cursor returns eax, ebx,
\* ecx and edx all zero with carry cleared.
C3_AsClaimed ==
    (Returned /\ IsE820 /\ ~InRange) =>
        /\ regs.eax = Zero32
        /\ regs.ebx = Zero32
        /\ regs.ecx = Zero32
        /\ regs.edx = Zero32
        /\ Carry(regs.flags) = 0

\* C3 amended: a 0xe820 call with an out-of-range cursor returns ebx = 0 and
\* edx = 0 with carry cleared; eax holds the value edx had on entry (as on
\* the in-range path) and ecx keeps its entry value.
C3_EndOfList ==
    (Returned /\ IsE820 /\ ~InRange) =>
        /\ regs.ebx = Zero32
        /\ regs.edx = Zero32
        /\ Carry(regs.flags) = 0
        /\ regs.eax = entry.edx
        /\ regs.ecx = entry.ecx

C3_Witness ==
    /\ Returned /\ IsE820
    /\ entry.ebx = W(\hffff, \hffff)
    /\ entry.edx = SMAP
    /\ entry.ecx = Lit(\h14)
    /\ Carry(entry.flags) = 1
    /\ regs.eax = SMAP
    /\ regs.ebx = Zero32

\* C5: handler(0x15) with eax = 0xe801 returns eax = ecx = 0x3c00 and
\* ebx = edx = 0 with carry cleared, whatever the registers held on entry.
C5_E801 ==
    (Returned /\ int_no = \h15 /\ entry.eax = Lit(\he801)) =>
        /\ regs.eax = Lit(\h3c00)
        /\ regs.ecx = Lit(\h3c00)
        /\ regs.ebx = Zero32
        /\ regs.edx = Zero32
        /\ Carry(regs.flags) = 0

C5_Witness ==
    /\ Returned /\ int_no = \h15 /\ entry.eax = Lit(\he801)
    /\ entry.ebx = W(\hffff, \hffff)
    /\ entry.ecx = Lit(\h14)
    /\ entry.edx = SMAP
    /\ Carry(entry.flags) = 1
    /\ regs.ecx = Lit(\h3c00)

\* C6: handler with interrupt 0x10 leaves every register, the flags and guest
\* memory unchanged and sends nothing to the sink, whatever eax selects.
C6_Int10Ignored ==
    (Returned /\ int_no = \h10) =>
        /\ regs = entry
        /\ mem = mem0
        /\ wr = {}
        /\ out = <<>>

C6_Witness ==
    /\ Returned /\ int_no = \h10
    /\ entry.eax = Lit(\he820)
    /\ entry.ebx = Lit(0)
    /\ Carry(entry.flags) = 1
    /\ regs.eax = Lit(\he820)

Unrecognized ==
    \/ int_no = \h15 /\ entry.eax \notin {Lit(\hec00), Lit(\he820), Lit(\he801), Lit(\h8800)}
    \/ int_no = \h16 /\ entry.eax \notin {Lit(\h0200), Lit(\h0305)}
    \/ int_no \notin {\h10, \h15, \h16}

UnknownMsgs == {"Unknown eax for int 15h!", "Unknown eax for int 16h!",
                "Unsupported int!", "Unknown ebx for ec00!"}

\* the number of unrecognized/unsupported messages in the sink output
UnknownCount == Cardinality({j \in 1 .. Len(out) : out[j] \in UnknownMsgs})

\* C7: an unrecognized request (unknown eax under 0x15 or 0x16, or an
\* interrupt other than 0x10, 0x15, 0x16) leaves all registers and the flags
\* unchanged and produces exactly one unrecognized/unsupported message.
C7_Unrecognized ==
    (Returned /\ Unrecognized) => (regs = entry /\ UnknownCount = 1)

C7_Witness ==
    /\ Returned /\ int_no = \h15
    /\ entry.eax = Lit(\h9999)
    /\ Carry(entry.flags) = 1
    /\ UnknownCount = 1
    /\ regs = entry

\* C15: handler(0x15) with eax = 0x8800 returns eax = 0 with carry cleared,
\* handler(0x16) with eax = 0x0200 returns eax = 0; every other register (and,
\* for 0x8800, every other flags bit; for 0x0200, the flags) is as on entry.
C15_ZeroAnswers ==
    /\ (Returned /\ int_no = \h15 /\ entry.eax = Lit(\h8800)) =>
           regs = [entry EXCEPT !.eax = Zero32,
                                !.flags = entry.flags - Carry(entry.flags)]
    /\ (Returned /\ int_no = \h16 /\ entry.eax = Lit(\h0200)) =>
           regs = [entry EXCEPT !.eax = Zero32]

C15_Witness ==
    /\ Returned /\ int_no = \h15 /\ entry.eax = Lit(\h8800)
    /\ entry.ebx = W(\hffff, \hffff)
    /\ entry.ecx = Lit(\h14)
    /\ entry.edx = SMAP
    /\ entry.flags = \hffff
    /\ regs.eax = Zero32
    /\ regs.ebx = W(\hffff, \hffff)
    /\ regs.flags = \hfffe

C15_Witness0200 ==
    /\ Returned /\ int_no = \h16 /\ entry.eax = Lit(\h0200)
    /\ entry.flags = \hffff
    /\ regs.eax = Zero32
    /\ regs.flags = \hffff

\* the message of the last log call of the operation
LastLog == out[Len(out) - 1]

\* C16: handler(0x15) with eax = 0xec00 changes no register and no flag,
\* with ebx = 2 or not (only the message logged differs), and handler(0x16)
\* with eax = 0x0305 changes no register, no flag and no guest memory.
C16_NoEffect ==
    /\ (Returned /\ int_no = \h15 /\ entry.eax = Lit(\hec00)) =>
           /\ regs = entry
           /\ mem = mem0 /\ wr = {}
           /\ LastLog = IF entry.ebx = Lit(2) THEN "OS tells BIOS it'll be 64-bit, ok"
                         ELSE "Unknown ebx for ec00!"
    /\ (Returned /\ int_no = \h16 /\ entry.eax = Lit(\h0305)) =>
           /\ regs = entry
           /\ mem = mem0 /\ wr = {}

C16_Witness ==
    /\ Returned /\ int_no = \h15 /\ entry.eax = Lit(\hec00)
    /\ entry.ebx = Lit(2)
    /\ Carry(entry.flags) = 1
    /\ regs = entry
    /\ LastLog = "OS tells BIOS it'll be 64-bit, ok"

C16_Witness0305 ==
    /\ Returned /\ int_no = \h16 /\ entry.eax = Lit(\h0305)
    /\ Carry(entry.flags) = 1
    /\ buf = RecordOf(3)
    /\ regs = entry

\* the guest buffer the call was not given
OtherBuf == IF entry.edi = GuestBufA THEN GuestBufB ELSE GuestBufA

\* C18: a 0xe820 call, in range or at the end of the list, stores exactly the
\* 20 bytes from the edi it was entered with (an all-zero record at the end
\* of the list) and nothing else; every other call stores nothing to guest
\* memory.
C18_GuestWrites ==
    Returned =>
        IF IsE820
        THEN /\ wr = {Extent(entry.edi, 20)}
             /\ RecDword(0) = buf[1] /\ RecDword(4) = buf[2] /\ RecDword(8) = buf[3]
             /\ RecDword(12) = buf[4] /\ RecDword(16) = buf[5]
             /\ ~InRange => \A k \in 0 .. 19 : MemRead(mem, Add32(entry.edi, Lit(k))) = 0
             /\ EdgesUntouched(entry.edi, 20)
             /\ \A k \in 0 .. 19 : Untouched(Add32(OtherBuf, Lit(k)))
        ELSE /\ wr = {}
             /\ mem = mem0

C18_Witness ==
    /\ Returned /\ IsE820 /\ ~InRange
    /\ entry.edi = GuestBufA
    /\ Read32(mem0, GuestBufA) = W(\h0100, \h0000)
    /\ Read32(mem, GuestBufA) = Zero32
    /\ wr = {Extent(GuestBufA, 20)}

\* C19: a handler call never changes ebp, esi or edi, changes no flags bit
\* but bit 0 and never sets bit 0; it changes ecx only in the 0xe801 service
\* (so 0xe820 returns ecx as entered), and on interrupt 0x16 the flags are as
\* entered.
C19_Frame ==
    Returned =>
        /\ regs.ebp = entry.ebp
        /\ regs.esi = entry.esi
        /\ regs.edi = entry.edi
        /\ regs.flags - Carry(regs.flags) = entry.flags - Carry(entry.flags)
        /\ Carry(regs.flags) <= Carry(entry.flags)
        /\ regs.ecx # entry.ecx => (int_no = \h15 /\ entry.eax = Lit(\he801))
        /\ IsE820 => regs.ecx = entry.ecx
        /\ int_no = \h16 => regs.flags = entry.flags

C19_Witness ==
    /\ Returned /\ int_no = \h16 /\ entry.eax = Lit(\h0200)
    /\ entry.flags = \hffff
    /\ entry.ebp = W(\h0bad, \hbeef)
    /\ entry.esi = W(\hffff, \hffff)
    /\ entry.ecx = Lit(\h14)
    /\ regs.eax = Zero32
    /\ regs.flags = \hffff
    /\ regs.ecx = Lit(\h14)

\* the previous 0xe820 call of the guest reported the end of the list
AfterEndOfList ==
    /\ hist[1] # <<>>
    /\ Ge32(hist[1][Len(hist[1])].cursor, Lit(mem_range_count))

\* C20: for every entry ebx a 0xe820 call delivers the table entry at index
\* ebx only when ebx < table size (else an all-zero record), returns ebx in
\* 0 .. table size, and returns ebx = 0 exactly when the entry ebx was out of
\* range; a guest that calls again after the end of the list passes ebx = 0
\* and is delivered entry 0 again.
C20_CursorBounds ==
    (Returned /\ IsE820) =>
        /\ Lt32(regs.ebx, Lit(mem_range_count + 1))
        /\ (regs.ebx = Zero32) <=> ~InRange
        /\ InRange => /\ regs.ebx = Add32(entry.ebx, Lit(1))
                      /\ entry.ebx[1] = 0
                      /\ buf = RecordOf(entry.ebx[2])
        /\ ~InRange => buf = ZeroBuf
        /\ \A j \in 1 .. Len(hist[1]) :
              /\ Lt32(hist[1][j].ebx, Lit(mem_range_count + 1))
              /\ (hist[1][j].ebx = Zero32) <=> Ge32(hist[1][j].cursor, Lit(mem_range_count))
        /\ AfterEndOfList =>
              /\ entry.ebx = Zero32
              /\ buf = RecordOf(0)
              /\ regs.ebx = Lit(1)

C20_Witness ==
    /\ Returned /\ IsE820
    /\ Len(hist[1]) = 2
    /\ hist[1][1].cursor = Lit(mem_range_count - 1)
    /\ hist[1][1].ebx = Lit(mem_range_count)
    /\ hist[1][2].cursor = Lit(mem_range_count)
    /\ hist[1][2].ebx = Zero32
    /\ entry.ebx = Zero32
    /\ buf[3] = W(\h0000, \h7000)
    /\ regs.ebx = Lit(1)

C20_WitnessFar ==
    /\ Returned /\ IsE820
    /\ Len(hist[1]) = 1
    /\ hist[1][1].cursor = W(\hffff, \hffff)
    /\ hist[1][1].ebx = Zero32
    /\ regs.ebx = Lit(1)

(***************************************************************************)
(* Properties of the enumeration (specification SpecEnum)                  *)
(***************************************************************************)
\* C1: from cursor 0, feeding the returned ebx back, call j (j = 1 .. N, N the
\* number of table entries) delivers base, length and type of table entry
\* j - 1, and call N + 1 reports end-of-list: ebx, base, length, type all zero.
C1_Traversal ==
    \A k \in Callers : \A j \in 1 .. Len(hist[k]) :
        /\ j <= mem_range_count =>
              /\ hist[k][j].base = mem_ranges[j].start
              /\ hist[k][j].length = mem_ranges[j].length
              /\ hist[k][j].type = mem_ranges[j].type
        /\ j = mem_range_count + 1 =>
              /\ hist[k][j].ebx = Zero32
              /\ hist[k][j].base = Zero32
              /\ hist[k][j].length = Zero32
              /\ hist[k][j].type = Zero32

C1_Witness ==
    /\ Len(hist[1]) = mem_range_count + 1
    /\ hist[2] = <<>>
    /\ hist[1][1].base = Zero32 /\ hist[1][1].length = Lit(\h7000)
    /\ hist[1][mem_range_count].base = W(\hfee0, \h0000)
    /\ hist[1][mem_range_count + 1].ebx = Zero32
    /\ hist[1][mem_range_count + 1].cursor = Lit(mem_range_count)

\* C4: what a 0xe820 call returns (record, ebx) depends on the entry cursor
\* alone: any two calls entered with the same cursor, by whichever caller and
\* whatever ran in between, return the same; so under every interleaving the
\* two callers see the same sequence, call for call.
C4_CursorAlone ==
    /\ \A k1 \in Callers, k2 \in Callers :
         \A j1 \in 1 .. Len(hist[k1]), j2 \in 1 .. Len(hist[k2]) :
            hist[k1][j1].cursor = hist[k2][j2].cursor => hist[k1][j1] = hist[k2][j2]
    /\ \A j \in 1 .. Len(hist[1]) : j <= Len(hist[2]) => hist[1][j] = hist[2][j]

C4_Witness ==
    /\ Len(hist[1]) = 3
    /\ Len(hist[2]) = 5
    /\ entry.edi = CallerBuf(1)
    /\ hist[1][3].base = W(\h0001, \h0000)
    /\ hist[2][5].base = W(\h7000, \h0000)
    /\ buf = RecordOf(2)

(***************************************************************************)
(* Properties of load_kernel (specification SpecLoad)                      *)
(***************************************************************************)
Loaded == pc = "loaded"

\* the header of the image as it was before load_kernel, and the relocated one
OrigField(name) == Field(Add32(args.kernel_image, Lit(\h1f0)), name)
RelocField(name) == Field(Add32(args.loc_real, Lit(\h1f0)), name)

\* initramfs + initramfs_size <= M, with the sum taken in the integers
\* (it can pass 2^32)
FitsBelow(initramfs, initramfs_size, M) ==
    /\ ~Lt32(Add32(initramfs, initramfs_size), initramfs)
    /\ ~Lt32(M, Add32(initramfs, initramfs_size))

Attached ==
    /\ Read32(mem, RelocField("ramdisk_image")) = args.initramfs
    /\ Read32(mem, RelocField("ramdisk_size")) = args.initramfs_size

Rejected ==
    /\ Read32(mem, RelocField("ramdisk_image")) = Zero32
    /\ Read32(mem, RelocField("ramdisk_size")) = Zero32

\* C8: with M the initrd_addr_max of the original header, load_kernel
\* attaches the initramfs if and only if initramfs + initramfs_size <= M, for
\* all 32-bit addresses and sizes; otherwise ramdisk_image = ramdisk_size = 0.
C8_AttachIffFits ==
    Loaded =>
        IF FitsBelow(args.initramfs, args.initramfs_size,
                     Read32(mem0, OrigField("initrd_addr_max")))
        THEN Attached
        ELSE Rejected

\* C9: after load_kernel the relocated header has code32_start = dest_protected,
\* cmd_line_ptr = stack_top, vid_mode = 0xffff, type_of_loader = 0xff,
\* setup_data = 0 and loadflags = the original's low 5 bits with bit 7 set and
\* bits 5 and 6 clear.
C9_HeaderPatched ==
    Loaded =>
        /\ Read32(mem, RelocField("code32_start")) = args.loc_prot
        /\ Read32(mem, RelocField("cmd_line_ptr")) = args.stack_end
        /\ Read16(mem, RelocField("vid_mode")) = \hffff
        /\ Read8(mem, RelocField("type_of_loader")) = \hff
        /\ Read32(mem, RelocField("setup_data_l")) = Zero32
        /\ Read32(mem, RelocField("setup_data_h")) = Zero32
        /\ Read8(mem, RelocField("loadflags"))
             = (Read8(mem0, OrigField("loadflags")) % 32) + 128

C9_Witness ==
    /\ Loaded
    /\ Read8(mem0, OrigField("loadflags")) = \h61
    /\ Read8(mem, RelocField("loadflags")) = \h81
    /\ args.loc_prot = W(\h0100, \h0000)
    /\ Read32(mem, RelocField("code32_start")) = W(\h0100, \h0000)
    /\ Read32(mem, RelocField("cmd_line_ptr")) = W(\h0004, \h0100)

\* the sizes of the two parts, from the original header
LowerOf(setup_sects) == IF setup_sects = 0 THEN 2560 ELSE (setup_sects + 1) * 512
OrigLower == LowerOf(Read8(mem0, OrigField("setup_sects")))
OrigUpper == 16 * ToNat(Read32(mem0, OrigField("syssize")))

\* the offsets in the real-mode part that load_kernel patches after the copy
PatchedOffsets ==
    UNION {{\h1f0 + kernel_header[f[1]] + k : k \in 0 .. f[2] - 1} :
           f \in {<<"vid_mode", 2>>, <<"type_of_loader", 1>>, <<"loadflags", 1>>,
                  <<"code32_start", 4>>, <<"ramdisk_image", 4>>, <<"ramdisk_size", 4>>,
                  <<"heap_end_ptr", 2>>, <<"cmd_line_ptr", 4>>,
                  <<"setup_data_l", 4>>, <<"setup_data_h", 4>>}}

\* C10: lower_size = (s + 1) * 512 with s = 4 exactly when setup_sects is 0
\* and s = setup_sects otherwise; load_kernel copies exactly lower_size bytes
\* from the start of the image to dest_real and syssize * 16 bytes from image
\* offset lower_size to dest_protected (the header patches come after).
C10_TwoCopies ==
    Loaded =>
        /\ Extent(args.loc_real, OrigLower) \in wr
        /\ \A e \in wr : e[1] = args.loc_real => e[2] = OrigLower
        /\ \A o \in (0 .. OrigLower - 1) \ PatchedOffsets :
              MemRead(mem, Add32(args.loc_real, Lit(o)))
                = MemRead(mem0, Add32(args.kernel_image, Lit(o)))
        /\ MemRead(mem, Add32(args.loc_real, Lit(OrigLower)))
             = MemRead(mem0, Add32(args.loc_real, Lit(OrigLower)))
        /\ OrigUpper > 0 => Extent(args.loc_prot, OrigUpper) \in wr
        /\ \A e \in wr : e[1] = args.loc_prot => e[2] = OrigUpper
        /\ \A o \in 0 .. OrigUpper - 1 :
              MemRead(mem, Add32(args.loc_prot, Lit(o)))
                = MemRead(mem0, Add32(args.kernel_image, Lit(OrigLower + o)))
        /\ MemRead(mem, Add32(args.loc_prot, Lit(OrigUpper)))
             = MemRead(mem0, Add32(args.loc_prot, Lit(OrigUpper)))

C10_Witness ==
    /\ Loaded
    /\ Read8(mem0, OrigField("setup_sects")) = 0
    /\ Extent(args.loc_real, 2560) \in wr
    /\ Extent(args.loc_prot, 48) \in wr
    /\ MemRead(mem, Add32(args.loc_real, Lit(2559))) = Pattern(2559)
    /\ MemRead(mem, Add32(args.loc_prot, Lit(47))) = Pattern(2560 + 47)

C10_Witness31 ==
    /\ Loaded
    /\ Read8(mem0, OrigField("setup_sects")) = 31
    /\ Extent(args.loc_real, 16384) \in wr

\* C11: after load_kernel the heap_end_ptr of the relocated header equals
\* stack_top - dest_real - 0x200, for every dest_real and stack_top.
C11_HeapEndPtr ==
    Loaded =>
        W(0, Read16(mem, RelocField("heap_end_ptr")))
          = Sub32(Sub32(args.stack_end, args.loc_real), Lit(\h200))

\* C12: load_kernel leaves every byte of the image (header included) as it
\* was, and stores only within the lower_size bytes at dest_real, the
\* upper_size bytes at dest_protected and the 256 bytes at stack_top.
C12_ImageUntouched ==
    Loaded =>
        /\ \A o \in 0 .. OrigLower + OrigUpper - 1 :
              Untouched(Add32(args.kernel_image, Lit(o)))
        /\ \A e \in wr :
              \/ ExtentWithin(e, args.loc_real, OrigLower)
              \/ ExtentWithin(e, args.loc_prot, OrigUpper)
              \/ ExtentWithin(e, args.stack_end, 256)
        /\ EdgesUntouched(args.loc_real, OrigLower)
        /\ EdgesUntouched(args.loc_prot, OrigUpper)
        /\ EdgesUntouched(args.stack_end, 256)

C12_Witness ==
    /\ Loaded
    /\ args.loc_real = W(\h0009, \h0000)
    /\ Read8(mem0, OrigField("loadflags")) = \h61
    /\ Read8(mem, OrigField("loadflags")) = \h61
    /\ Read8(mem, RelocField("loadflags")) = \h81
    /\ Extent(args.loc_real, 1024) \in wr
    /\ Extent(args.loc_prot, 48) \in wr
    /\ Extent(args.stack_end, 256) \in wr

\* the limit test of load_kernel rejects the initramfs
TooSmall ==
    initrd_too_small(Read32(mem0, OrigField("initrd_addr_max")),
                     args.initramfs, args.initramfs_size)

\* the same load with an empty initramfs, which the limit test accepts
AcceptedRun ==
    load_kernel([args EXCEPT !.initramfs = Zero32, !.initramfs_size = Zero32], mem0)

Diagnostic == "[vlbl] cannot load initrd because of a too small initrd_addr_max: "

\* C13: load_kernel always returns 0; when the limit test rejects the
\* initramfs, memory and the stores are those of an accepted load except for
\* ramdisk_image = ramdisk_size = 0, and the sink gets the diagnostic.
C13_RejectStillLoads ==
    Loaded =>
        /\ ret = 0
        /\ TooSmall =>
              /\ Rejected
              /\ mem = AcceptedRun.mem
              /\ wr = AcceptedRun.wr
              /\ Read32(mem, RelocField("cmd_line_ptr")) = args.stack_end
              /\ Read32(mem, RelocField("code32_start")) = args.loc_prot
              /\ \E j \in 1 .. Len(out) : out[j] = Diagnostic
              /\ out[Len(out) - 1] = "[vlbl] kernel loaded."
        /\ ~TooSmall => \A j \in 1 .. Len(out) : out[j] # Diagnostic

C13_Witness ==
    /\ Loaded
    /\ ret = 0
    /\ args.initramfs = W(\h3000, \h0000)
    /\ args.initramfs_size = W(\h0800, \h0000)
    /\ TooSmall
    /\ Rejected
    /\ Extent(args.loc_prot, 256) \in wr
    /\ \E j \in 1 .. Len(out) : out[j] = Diagnostic

\* C14: with a null initramfs pointer load_kernel leaves ramdisk_image = 0
\* and ramdisk_size = 0, whatever initramfs_size and initrd_addr_max are.
C14_NullInitramfs ==
    (Loaded /\ args.initramfs = Zero32) => Rejected

====
